---- MODULE Spec2Model ----
(***************************************************************************)
(* A model of the training driver (src/train.py) and of the model wrappers *)
(* (src/model.py).                                                          *)
(*                                                                         *)
(*   Spec      one call of train(): setup, the epoch loop, the training    *)
(*             loop, the validation loop and the checkpoint step.          *)
(*   SpecArgs  the entry point: the two parse_args() calls and the call of *)
(*             train.                                                      *)
(*   SpecPath  increment_path() called again and again on one directory,   *)
(*             each call followed by the creation of the returned path.    *)
(*                                                                         *)
(* A Python exception is the state pc = "error" with errLine the line of   *)
(* src/train.py that raised; the locals keep the values they had there.    *)
(***************************************************************************)
EXTENDS Integers, Sequences, FiniteSets, TLC

VARIABLES
    \* ---- train(): arguments and environment
    args,           \* the argparse namespace fields train() reads
    nTrain,         \* len(train_loader)
    nVal,           \* len(val_loader)
    outsKind,       \* what model(inputs) returns: "tensor" | "per_task"
    \* ---- train(): control
    pc,             \* "setup" | "epoch" | "train" | "val" | "epochEnd" | "done" | "error"
    errLine,        \* line of src/train.py that raised (0: none)
    epoch, idx, vidx,
    \* ---- train(): locals
    num_classes,
    requires_grad,  \* parameter group -> requires_grad
    headOut,        \* out features of the classification layer
    bound,          \* which of the names criterion / loss_func are bound
    loss,           \* what the local `loss` holds
    mixed,          \* whether data_mix was applied to the last training batch
    critCalls,      \* <<loop, labels>> of every call criterion(outs, labels)
    loss_value, matches,
    batchLosses, batchMatches,  \* loss.item() and match count of each batch of this epoch
    logs,           \* the Train/loss, Train/accuracy records given to the logger
    weights,        \* number of optimizer steps taken: names the model's weights
    best_f1_score,
    bestPth, lastPth,           \* <<>>: no file; <<w>>: the file holds weights w
    target_len, pred_len,       \* tensors appended to target_tensor / pred_tensor
    figure,
    f1Seen,         \* the validation F1 of every completed epoch
    \* ---- entry point
    argv, environ, ns, stage, trainCall,
    \* ---- increment_path
    fs, calls, returned, fs0

trainVars == <<args, nTrain, nVal, outsKind, pc, errLine, epoch, idx, vidx,
               num_classes, requires_grad, headOut, bound, loss, mixed,
               critCalls, loss_value, matches, batchLosses, batchMatches, logs,
               weights, best_f1_score, bestPth, lastPth, target_len, pred_len,
               figure, f1Seen>>
argVars == <<argv, environ, ns, stage, trainCall>>
pathVars == <<fs, calls, returned, fs0>>
vars == <<trainVars, argVars, pathVars>>

(***************************************************************************)
(* Bounds of the model.                                                    *)
(***************************************************************************)
MaxTrainBatches == 3
MaxValBatches == 2
MaxEpochs == 3
MaxF1 == 2
MaxCalls == 3
MaxArgs == 2

(***************************************************************************)
(* Program constants.                                                      *)
(***************************************************************************)
UnfreezeEpoch == 2
GridN == 16

None == "None"

Tasks == {"mask", "gender", "age"}

(***************************************************************************)
(* src/model.py                                                            *)
(***************************************************************************)
PretrainedWrappers ==
    {"Resnet18", "Resnet50", "Alexnet", "VGG11bn", "Squeezenet", "Densenet121"}

\* The classes of src/model.py, and CustomModel: a class --model names that
\* src/model.py does not hold (train resolves the name at run time).
SrcModels == PretrainedWrappers \cup {"BaseModel", "MyModel"}
Models == SrcModels \cup {"CustomModel"}

\* The layer each wrapper replaces by a fresh num_classes-output layer.
HeadLayer(arch) ==
    CASE arch \in {"Resnet18", "Resnet50"} -> "fc"
      [] arch \in {"Alexnet", "VGG11bn"}   -> "classifier.6"
      [] arch = "Squeezenet"               -> "classifier.1"
      [] arch = "Densenet121"              -> "classifier"
      [] OTHER                             -> "fc"

\* The other parameter groups of the wrapped torchvision model.
Backbone(arch) ==
    CASE arch \in {"Resnet18", "Resnet50"} -> {"conv1", "layer1", "layer4"}
      [] arch \in {"Alexnet", "VGG11bn"}   -> {"features", "classifier.1", "classifier.4"}
      [] arch = "Squeezenet"               -> {"features"}
      [] arch = "Densenet121"              -> {"features"}
      [] OTHER                             -> {"conv1", "conv2", "conv3"}

\* models.<arch>(pretrained=...): every parameter requires grad.
Pretrained(arch) == [p \in Backbone(arch) \cup {HeadLayer(arch)} |-> TRUE]

set_parameter_requires_grad(rg, feature_extracting) ==
    IF feature_extracting THEN [p \in DOMAIN rg |-> FALSE] ELSE rg

\* <Wrapper>.__init__: load, freeze, then install the new layer.
WrapperInit_HeadFirst(arch, feature_extract) ==
    set_parameter_requires_grad([Pretrained(arch) EXCEPT ![HeadLayer(arch)] = TRUE],
                                feature_extract)

WrapperInit(arch, feature_extract) ==
    [set_parameter_requires_grad(Pretrained(arch), feature_extract)
        EXCEPT ![HeadLayer(arch)] = TRUE]

\* BaseModel.__init__(num_classes, **kwargs): feature_extract is ignored.
BaseModelInit == [p \in Backbone("BaseModel") \cup {"fc"} |-> TRUE]

\* What construction can leave in requires_grad. Of CustomModel's code
\* nothing is known; its parameters are left as torch creates them.
ModelInit(arch, feature_extract) ==
    CASE arch \in PretrainedWrappers -> {WrapperInit(arch, feature_extract)}
      [] arch = "BaseModel"          -> {BaseModelInit}
      [] OTHER -> {[p \in {"backbone", "heads"} |-> TRUE]}

\* forward(): every class of src/model.py returns one tensor.
ForwardKinds(arch) ==
    IF arch \in SrcModels THEN {"tensor"} ELSE {"tensor", "per_task"}

(***************************************************************************)
(* src/train.py: train()                                                   *)
(***************************************************************************)
Criteria == {"multi_label", "cross_entropy"}
MultiLabels == {"mask", "gender", "age", "multi_label"}
MixPs == {0, 50}            \* --mixp, in hundredths
Draws == {25, 75}           \* np.random.random(), in hundredths
LogIntervals == {1, 2}
BatchSizes == {2}
Losses == {1, 3}            \* loss.item() of a batch

NumClasses_GenderThree(multi_label) ==
    IF multi_label = "mask" \/ multi_label = "age" \/ multi_label = "gender" THEN 3
    ELSE 18

\* lines 109-114
NumClasses(multi_label) ==
    IF multi_label = "mask" \/ multi_label = "age" THEN 3
    ELSE IF multi_label = "gender" THEN 2
    ELSE 18

\* lines 205-212 and 278-285: what `labels` names after the task selection;
\* "dict" is the whole mapping mask/gender/age/label.
LabelsKey(a) ==
    IF a.criterion # "multi_label" /\ a.multi_label \in Tasks
    THEN a.multi_label ELSE "dict"

Raised(line, l, m, c) == [err |-> line, loss |-> l, mixed |-> m, crit |-> c]

\* lines 216-231: the mixup/cutmix branch of a training batch. The result is
\* the line that raised (0: none), the local loss, whether data_mix was
\* called, and the criterion calls made. A mixed batch passes criterion the
\* two targets data_mix made of labels. When labels is still the mapping,
\* the mixed branch raises in data_mix (line 219) or at line 221 at the
\* latest, which is the line kept.
LossStage(a, bnd, ok, draw, loss0) ==
    LET lk == LabelsKey(a) IN
    IF a.mixp # 0
    THEN IF draw < a.mixp
         THEN IF "criterion" \notin bnd \/ lk = "dict" \/ ok = "per_task"
              THEN Raised(221, loss0, TRUE, {})
              ELSE Raised(0, "mix", TRUE, {<<"train", lk>>})
         ELSE IF lk = "dict" THEN Raised(224, loss0, FALSE, {})
              ELSE IF ok = "per_task" THEN Raised(226, loss0, FALSE, {})
              ELSE Raised(0, "criterion", FALSE, {<<"train", lk>>})
    ELSE IF a.criterion # "multi_label" /\ lk = "dict"
         THEN Raised(231, loss0, FALSE, {})
         ELSE Raised(0, loss0, FALSE, {})

\* lines 233-242: predictions, the multi-task loss, and the encoding of the
\* predictions, which indexes preds by task name.
PredStage(a, bnd, ok, r) ==
    IF a.criterion = "multi_label"
    THEN IF ok = "tensor" THEN [r EXCEPT !.err = 236]
         ELSE IF "loss_func" \notin bnd THEN [r EXCEPT !.err = 237]
         ELSE [r EXCEPT !.loss = "multi"]
    ELSE IF ok = "per_task" THEN [r EXCEPT !.err = 239]
         ELSE [r EXCEPT !.err = 242]

\* line 243: loss.backward() needs a loss computed in this batch.
BackwardStage(r) ==
    IF r.loss \in {"mix", "criterion", "multi"} THEN r ELSE [r EXCEPT !.err = 243]

TrainBody(a, bnd, ok, draw, loss0) ==
    LET r1 == LossStage(a, bnd, ok, draw, loss0) IN
    IF r1.err # 0 THEN r1
    ELSE LET r2 == PredStage(a, bnd, ok, r1) IN
         IF r2.err # 0 THEN r2 ELSE BackwardStage(r2)

RECURSIVE SumSeq(_)
SumSeq(s) == IF s = <<>> THEN 0 ELSE s[1] + SumSeq(Tail(s))

ArgsSet ==
    [criterion : Criteria, multi_label : MultiLabels, mixp : MixPs,
     epochs : 0..MaxEpochs, log_interval : LogIntervals, batch_size : BatchSizes,
     model : Models, feature_extract : BOOLEAN]

ArgIdle ==
    /\ argv = <<>> /\ environ = <<>> /\ ns = <<>> /\ stage = "idle" /\ trainCall = None
PathIdle ==
    /\ fs = {} /\ calls = 0 /\ returned = <<>> /\ fs0 = {}

\* The state on entry to train().
Init ==
    /\ args \in ArgsSet
    /\ nTrain \in 0..MaxTrainBatches
    /\ nVal \in 0..MaxValBatches
    /\ outsKind \in ForwardKinds(args.model)
    /\ pc = "setup" /\ errLine = 0
    /\ epoch = 0 /\ idx = 0 /\ vidx = 0
    /\ num_classes = 0 /\ requires_grad = <<>> /\ headOut = 0
    /\ bound = {} /\ loss = "unbound" /\ mixed = FALSE /\ critCalls = {}
    /\ loss_value = 0 /\ matches = 0
    /\ batchLosses = <<>> /\ batchMatches = <<>> /\ logs = <<>>
    /\ weights = 0 /\ best_f1_score = 0 /\ bestPth = <<>> /\ lastPth = <<>>
    /\ target_len = 0 /\ pred_len = 0 /\ figure = None /\ f1Seen = <<>>
    /\ ArgIdle /\ PathIdle

\* Where control goes when the training loop is exhausted.
AfterTrain == IF nVal = 0 THEN "epochEnd" ELSE "val"

Raise(line) == pc' = "error" /\ errLine' = line

\* lines 91-191: num_classes, the model, the loss, the best-score locals.
\* MyModel.__init__(self, num_classes) takes no feature_extract keyword.
Setup ==
    /\ pc = "setup"
    /\ IF args.model = "MyModel"
       THEN /\ Raise(149)
            /\ num_classes' = NumClasses(args.multi_label)
            /\ UNCHANGED <<requires_grad, headOut, bound>>
       ELSE /\ \E rg \in ModelInit(args.model, args.feature_extract) :
                 requires_grad' = rg
            /\ num_classes' = NumClasses(args.multi_label)
            /\ headOut' = NumClasses(args.multi_label)
            /\ bound' = IF args.criterion = "multi_label"
                        THEN {"loss_func"} ELSE {"criterion"}
            /\ pc' = "epoch" /\ UNCHANGED errLine
    /\ best_f1_score' = 0
    /\ UNCHANGED <<args, nTrain, nVal, outsKind, epoch, idx, vidx, loss, mixed,
                   critCalls, loss_value, matches, batchLosses, batchMatches,
                   logs, weights, bestPth, lastPth, target_len, pred_len,
                   figure, f1Seen>>
    /\ UNCHANGED <<argVars, pathVars>>

Unfreeze(rg) == [p \in DOMAIN rg |-> TRUE]

\* line 195
EpochStartsUnfrozen(e) == e = UnfreezeEpoch

\* lines 193-201: the head of the epoch loop; the loop ends when the range
\* is exhausted. The locals of the validation loop (lines 270-274) are reset
\* here as well: nothing reads them in between.
EpochStart ==
    /\ pc = "epoch"
    /\ IF epoch < args.epochs
       THEN /\ requires_grad' = IF EpochStartsUnfrozen(epoch)
                                THEN Unfreeze(requires_grad) ELSE requires_grad
            /\ loss_value' = 0 /\ matches' = 0
            /\ batchLosses' = <<>> /\ batchMatches' = <<>>
            /\ idx' = 0
            /\ pc' = IF nTrain = 0 THEN AfterTrain ELSE "train"
       ELSE /\ pc' = "done"
            /\ UNCHANGED <<requires_grad, loss_value, matches, batchLosses,
                           batchMatches, idx>>
    /\ vidx' = 0 /\ target_len' = 0 /\ pred_len' = 0 /\ figure' = None
    /\ UNCHANGED <<args, nTrain, nVal, outsKind, errLine, epoch, num_classes,
                   headOut, bound, loss, mixed, critCalls, logs, weights,
                   best_f1_score, bestPth, lastPth, f1Seen>>
    /\ UNCHANGED <<argVars, pathVars>>

LogDue_OffByOne(i, log_interval) == i % log_interval = 0

\* line 250
LogDue(i, log_interval) == (i + 1) % log_interval = 0

\* lines 251-259: the record given to the logger. The two quotients are kept
\* as numerator and denominator.
LogRecord(e, i, lv, mt) ==
    [epoch |-> e, step |-> e * nTrain + i,
     loss_num |-> lv, loss_den |-> args.log_interval,
     acc_num |-> mt, acc_den |-> args.batch_size * args.log_interval]

\* lines 202-262: one training batch.
TrainStep ==
    /\ pc = "train"
    /\ \E draw \in Draws, l \in Losses, m \in 0..args.batch_size :
         LET r  == TrainBody(args, bound, outsKind, draw, loss)
             lv == loss_value + l
             mt == IF args.criterion = "multi_label" THEN matches + m ELSE matches
         IN  /\ loss' = r.loss
             /\ mixed' = r.mixed
             /\ critCalls' = critCalls \cup r.crit
             /\ IF r.err # 0
                THEN /\ Raise(r.err)
                     /\ UNCHANGED <<idx, loss_value, matches, batchLosses,
                                    batchMatches, logs, weights>>
                ELSE /\ weights' = weights + 1
                     /\ batchLosses' = Append(batchLosses, l)
                     /\ batchMatches' = Append(batchMatches, m)
                     /\ IF LogDue(idx, args.log_interval)
                        THEN /\ logs' = Append(logs, LogRecord(epoch, idx, lv, mt))
                             /\ loss_value' = 0
                             /\ matches' = 0
                        ELSE /\ loss_value' = lv
                             /\ matches' = mt
                             /\ UNCHANGED logs
                     /\ idx' = idx + 1
                     /\ pc' = IF idx + 1 = nTrain THEN AfterTrain ELSE "train"
                     /\ UNCHANGED errLine
    /\ UNCHANGED <<args, nTrain, nVal, outsKind, epoch, vidx, num_classes,
                   requires_grad, headOut, bound, best_f1_score, bestPth,
                   lastPth, target_len, pred_len, figure, f1Seen>>
    /\ UNCHANGED <<argVars, pathVars>>

ValRaised(line, l, c, t, p, f) ==
    [err |-> line, loss |-> l, crit |-> c, tgt |-> t, prd |-> p, fig |-> f]

\* lines 275-320: one validation batch of sz images. The result is the line
\* that raised (0: none), the local loss, the criterion calls made, the
\* tensors appended to target_tensor and to pred_tensor, and the figure.
ValBody(a, bnd, ok, sz, loss0, fig0) ==
    LET lk == LabelsKey(a) IN
    IF a.criterion = "multi_label"
    THEN IF ok = "tensor" THEN ValRaised(293, loss0, {}, 0, 0, fig0)
         ELSE IF "loss_func" \notin bnd THEN ValRaised(294, loss0, {}, 0, 0, fig0)
         ELSE \* line 307 reads criterion, and labels is still the mapping
              ValRaised(307, "val_multi", {}, 1, 0, fig0)
    ELSE IF lk = "dict" THEN ValRaised(286, loss0, {}, 0, 0, fig0)
         ELSE IF ok = "per_task" THEN ValRaised(301, loss0, {}, 0, 0, fig0)
         ELSE IF fig0 = None /\ sz < GridN
              THEN \* grid_image asserts n <= batch_size
                   ValRaised(318, "val_criterion", {<<"val", lk>>}, 2, 1, fig0)
              ELSE ValRaised(0, "val_criterion", {<<"val", lk>>}, 2, 1, "figure")

ValStep ==
    /\ pc = "val"
    /\ \E sz \in {GridN - 1, GridN} :
         LET r == ValBody(args, bound, outsKind, sz, loss, figure) IN
         /\ loss' = r.loss
         /\ critCalls' = critCalls \cup r.crit
         /\ target_len' = target_len + r.tgt
         /\ pred_len' = pred_len + r.prd
         /\ figure' = r.fig
         /\ IF r.err # 0
            THEN Raise(r.err) /\ UNCHANGED vidx
            ELSE /\ vidx' = vidx + 1
                 /\ pc' = IF vidx + 1 = nVal THEN "epochEnd" ELSE "val"
                 /\ UNCHANGED errLine
    /\ UNCHANGED <<args, nTrain, nVal, outsKind, epoch, idx, num_classes,
                   requires_grad, headOut, bound, mixed, loss_value, matches,
                   batchLosses, batchMatches, logs, weights, best_f1_score,
                   bestPth, lastPth, f1Seen>>
    /\ UNCHANGED <<argVars, pathVars>>

\* line 322: torch.cat of an empty list raises, and f1_score raises on
\* targets and predictions of different lengths.
F1Raises(t, p) == t = 0 \/ p = 0 \/ t # p

\* lines 322-342: the scores, the checkpoints, and the next epoch.
EpochEnd ==
    /\ pc = "epochEnd"
    /\ IF F1Raises(target_len, pred_len)
       THEN /\ Raise(322)
            /\ UNCHANGED <<epoch, best_f1_score, bestPth, lastPth, f1Seen>>
       ELSE \E val_f1 \in 0..MaxF1 :
            /\ IF val_f1 > best_f1_score
               THEN bestPth' = <<weights>> /\ best_f1_score' = val_f1
               ELSE UNCHANGED <<bestPth, best_f1_score>>
            /\ lastPth' = <<weights>>
            /\ f1Seen' = Append(f1Seen, val_f1)
            /\ epoch' = epoch + 1
            /\ pc' = "epoch"
            /\ UNCHANGED errLine
    /\ UNCHANGED <<args, nTrain, nVal, outsKind, idx, vidx, num_classes,
                   requires_grad, headOut, bound, loss, mixed, critCalls,
                   loss_value, matches, batchLosses, batchMatches, logs,
                   weights, target_len, pred_len, figure>>
    /\ UNCHANGED <<argVars, pathVars>>

Next == Setup \/ EpochStart \/ TrainStep \/ ValStep \/ EpochEnd

Spec == Init /\ [][Next]_vars

(***************************************************************************)
(* src/train.py: the entry point                                           *)
(***************************************************************************)
DirOptions == {"data_dir", "model_dir"}
\* The options the parser knows at the first parse_args() that the model
\* passes; the others (lines 355-382) are never on the modelled command line.
FirstOptions == {"images"}
Options == FirstOptions \cup DirOptions
OptionValues == {<<"a">>, <<"b">>}
EnvValues == {None, <<"env">>}

RECURSIVE SeqsUpTo(_, _)
SeqsUpTo(S, n) ==
    IF n = 0 THEN {<<>>}
    ELSE LET shorter == SeqsUpTo(S, n - 1) IN
         shorter \cup {Append(q, x) : q \in shorter, x \in S}

\* parse_args(): an option the parser does not know makes it call
\* parser.error, which exits with status 2; of a repeated option the last
\* value stays.
RECURSIVE ParseArgs(_, _, _)
ParseArgs(known, acc, rest) ==
    IF rest = <<>> THEN [exit |-> 0, ns |-> acc]
    ELSE IF rest[1][1] \notin known THEN [exit |-> 2, ns |-> acc]
    ELSE ParseArgs(known, [acc EXCEPT ![rest[1][1]] = rest[1][2]], Tail(rest))

\* os.environ.get(name, default)
EnvGet(env, name, default) == IF env[name] # None THEN env[name] ELSE default

InitArgs ==
    /\ argv \in SeqsUpTo(Options \X OptionValues, MaxArgs)
    /\ environ \in [{"SM_CHANNEL_TRAIN", "SM_MODEL_DIR"} -> EnvValues]
    /\ ns = <<>> /\ stage = "start" /\ trainCall = None
    /\ PathIdle
    /\ args = <<>> /\ nTrain = 0 /\ nVal = 0 /\ outsKind = "tensor"
    /\ pc = "idle" /\ errLine = 0
    /\ epoch = 0 /\ idx = 0 /\ vidx = 0
    /\ num_classes = 0 /\ requires_grad = <<>> /\ headOut = 0
    /\ bound = {} /\ loss = "unbound" /\ mixed = FALSE /\ critCalls = {}
    /\ loss_value = 0 /\ matches = 0
    /\ batchLosses = <<>> /\ batchMatches = <<>> /\ logs = <<>>
    /\ weights = 0 /\ best_f1_score = 0 /\ bestPth = <<>> /\ lastPth = <<>>
    /\ target_len = 0 /\ pred_len = 0 /\ figure = None /\ f1Seen = <<>>

\* lines 348-386: the parser without --data_dir and --model_dir, and the
\* first parse_args().
FirstParse ==
    /\ stage = "start"
    /\ LET r == ParseArgs(FirstOptions, [images |-> <<"train/images">>], argv) IN
       IF r.exit # 0
       THEN stage' = "exit2" /\ UNCHANGED ns
       ELSE stage' = "parsed" /\ ns' = r.ns
    /\ UNCHANGED <<argv, environ, trainCall>>
    /\ UNCHANGED <<trainVars, pathVars>>

\* lines 388-391: the two directory options, their defaults taken from the
\* environment and from the first parse, and the second parse_args().
SecondParse ==
    /\ stage = "parsed"
    /\ LET defaults ==
             [images |-> <<"train/images">>,
              data_dir |-> EnvGet(environ, "SM_CHANNEL_TRAIN",
                                  <<"/opt/ml/input/data/">> \o ns.images),
              model_dir |-> EnvGet(environ, "SM_MODEL_DIR", <<"./model">>)]
           r == ParseArgs(Options, defaults, argv)
       IN IF r.exit # 0
          THEN stage' = "exit2" /\ UNCHANGED ns
          ELSE stage' = "ready" /\ ns' = r.ns
    /\ UNCHANGED <<argv, environ, trainCall>>
    /\ UNCHANGED <<trainVars, pathVars>>

\* lines 394-398
CallTrain ==
    /\ stage = "ready"
    /\ trainCall' = [data_dir |-> ns.data_dir, model_dir |-> ns.model_dir]
    /\ stage' = "train"
    /\ UNCHANGED <<argv, environ, ns>>
    /\ UNCHANGED <<trainVars, pathVars>>

NextArgs == FirstParse \/ SecondParse \/ CallTrain

SpecArgs == InitArgs /\ [][NextArgs]_vars

(***************************************************************************)
(* src/train.py: increment_path                                            *)
(*                                                                         *)
(* The directory entries that glob(f"{path}*") can return are named by     *)
(* what follows path in them: a sequence of characters, 0..9 for the       *)
(* digits and NonDigit for any other character. <<>> is path itself.          *)
(***************************************************************************)
NonDigit == 10
IsDigit(c) == c \in 0..9

\* (\d+) right after the stem: the longest run of digits the suffix starts with.
RECURSIVE DigitRun(_)
DigitRun(sfx) ==
    IF sfx = <<>> \/ ~IsDigit(sfx[1]) THEN <<>>
    ELSE <<sfx[1]>> \o DigitRun(Tail(sfx))

\* int(m.groups()[0])
RECURSIVE IntOf(_)
IntOf(ds) ==
    IF ds = <<>> THEN 0 ELSE 10 * IntOf(SubSeq(ds, 1, Len(ds) - 1)) + ds[Len(ds)]

\* f"{n}" of a natural number
RECURSIVE Format(_)
Format(n) == IF n < 10 THEN <<n>> ELSE Format(n \div 10) \o <<n % 10>>

SetMax(S) == CHOOSE x \in S : \A y \in S : y <= x

\* lines 72-87: the suffix of the returned path.
increment_path(dirs, exist_ok) ==
    LET exists == <<>> \in dirs IN
    IF (exists /\ exist_ok) \/ ~exists
    THEN <<>>
    ELSE LET i == {IntOf(DigitRun(d)) : d \in {e \in dirs : DigitRun(e) # <<>>}}
             n == IF i # {} THEN SetMax(i) + 1 ELSE 1
         IN  Format(n)

InitSuffixes == {<<>>, <<0>>, <<1>>, <<0, 2>>, <<9>>, <<NonDigit, 3>>}

InitPath ==
    /\ fs0 \in SUBSET InitSuffixes
    /\ fs = fs0 /\ calls = 0 /\ returned = <<>>
    /\ ArgIdle
    /\ args = <<>> /\ nTrain = 0 /\ nVal = 0 /\ outsKind = "tensor"
    /\ pc = "idle" /\ errLine = 0
    /\ epoch = 0 /\ idx = 0 /\ vidx = 0
    /\ num_classes = 0 /\ requires_grad = <<>> /\ headOut = 0
    /\ bound = {} /\ loss = "unbound" /\ mixed = FALSE /\ critCalls = {}
    /\ loss_value = 0 /\ matches = 0
    /\ batchLosses = <<>> /\ batchMatches = <<>> /\ logs = <<>>
    /\ weights = 0 /\ best_f1_score = 0 /\ bestPth = <<>> /\ lastPth = <<>>
    /\ target_len = 0 /\ pred_len = 0 /\ figure = None /\ f1Seen = <<>>

\* line 94: a call of increment_path.
CallIncrementPath ==
    /\ Len(returned) = calls /\ calls < MaxCalls
    /\ \E exist_ok \in BOOLEAN :
         returned' = Append(returned, [exist_ok |-> exist_ok,
                                       path |-> increment_path(fs, exist_ok)])
    /\ UNCHANGED <<fs, calls, fs0>>
    /\ UNCHANGED <<trainVars, argVars>>

\* lines 183-185: SummaryWriter(log_dir=save_dir) creates the directory.
CreateDir ==
    /\ Len(returned) = calls + 1
    /\ fs' = fs \cup {returned[Len(returned)].path}
    /\ calls' = calls + 1
    /\ UNCHANGED <<returned, fs0>>
    /\ UNCHANGED <<trainVars, argVars>>

NextPath == CallIncrementPath \/ CreateDir

SpecPath == InitPath /\ [][NextPath]_vars

(***************************************************************************)
(* The claims.                                                             *)
(***************************************************************************)
Stopped == pc \in {"done", "error"}
SingleTask == args.criterion # "multi_label"
AllTrainable == \A p \in DOMAIN requires_grad : requires_grad[p]

\* C1: a single-task run of at least one epoch, with batches to train and to
\* validate on, that has stopped has ended every epoch with a checkpoint: last.pth
\* holds the weights of the last epoch, best_f1_score is the greatest
\* validation F1 seen, and best.pth exists if that F1 is above 0.
C1_CheckpointsWritten ==
    (/\ Stopped /\ SingleTask /\ outsKind = "tensor" /\ args.model # "MyModel"
     /\ args.epochs >= 1 /\ nTrain >= 1 /\ nVal >= 1)
    => /\ Len(f1Seen) = args.epochs
       /\ lastPth = <<weights>>
       /\ \A k \in 1..Len(f1Seen) : f1Seen[k] <= best_f1_score
       /\ (best_f1_score > 0) => (bestPth # <<>>)

\* C2: a single-task run (criterion # 'multi_label', mixp = 0, epochs >= 1,
\* a model that returns one logits tensor, batches to train and to validate
\* on) raises no error.
C2_SingleTaskRaisesNothing ==
    (/\ SingleTask /\ args.mixp = 0 /\ args.epochs >= 1
     /\ outsKind = "tensor" /\ args.model # "MyModel"
     /\ nTrain >= 1 /\ nVal >= 1)
    => pc # "error"

\* C3: a multi-task run (criterion = 'multi_label', mixp = 0, epochs >= 1,
\* a model that returns one logits output per task, batches to train and to
\* validate on) raises no error.
C3_MultiTaskRaisesNothing ==
    (/\ args.criterion = "multi_label" /\ args.mixp = 0 /\ args.epochs >= 1
     /\ outsKind = "per_task"
     /\ nTrain >= 1 /\ nVal >= 1)
    => pc # "error"

\* C4: a command line that passes --data_dir and/or --model_dir is parsed
\* without error.
C4_DirOptionsAccepted ==
    (\E k \in 1..Len(argv) : argv[k][1] \in DirOptions) => stage # "exit2"

\* C5: starting from a directory that holds path and nothing else,
\* successive calls with exist_ok False, each followed by the creation of
\* the returned directory, return path0, path1, ...
C5_NumberingStartsAtZero ==
    (fs0 = {<<>>} /\ \A k \in 1..Len(returned) : ~returned[k].exist_ok)
    => \A k \in 1..Len(returned) : returned[k].path = <<k - 1>>

\* C6: in single-task mode, a training batch that has been through the
\* mixup branch (lines 216-231) and reached the encoding of its predictions
\* (line 242) holds in loss the lam-blend of the two criterion values if it
\* was mixed and criterion(outs, labels) if it was not; with mixp = 0 no
\* batch is mixed.
C6_LossOfABatch ==
    /\ (pc # "idle" /\ args.mixp = 0) => ~mixed
    /\ (pc = "error" /\ errLine \in {242, 243} /\ SingleTask)
       => loss = IF mixed THEN "mix" ELSE "criterion"

\* C7: right after the construction of a pretrained wrapper, with
\* feature_extract every parameter but those of the newly installed layer
\* has requires_grad False and those of the new layer have it True, and the
\* new layer has num_classes outputs; without feature_extract every
\* parameter has requires_grad True.
C7_FeatureExtractFreezes ==
    (pc = "epoch" /\ epoch = 0 /\ args.model \in PretrainedWrappers)
    => /\ headOut = num_classes
       /\ \A p \in DOMAIN requires_grad :
            requires_grad[p] =
                (~args.feature_extract \/ p = HeadLayer(args.model))

C7_Witness ==
    /\ pc = "epoch" /\ epoch = 0
    /\ args.model = "Squeezenet" /\ args.feature_extract
    /\ ~requires_grad["features"] /\ requires_grad["classifier.1"]

\* C8: a single-task run of more than 2 epochs, with batches to train and to validate
\* on, of a pretrained wrapper built with feature_extract has released every
\* frozen parameter by the time it stops.
C8_ReleasedAtEpochTwo ==
    (/\ Stopped /\ SingleTask
     /\ args.epochs > UnfreezeEpoch /\ nTrain >= 1 /\ nVal >= 1
     /\ args.model \in PretrainedWrappers /\ args.feature_extract)
    => AllTrainable

\* C9: num_classes is 3 for multi_label 'mask' or 'age', 2 for 'gender' and
\* 18 for any other value, the model's head has that many outputs, and in
\* single-task mode with multi_label a task every call of criterion, in the
\* training loop and in the validation loop, is given labels[multi_label].
C9_HeadSizeAndLabels ==
    /\ pc \notin {"idle", "setup"} =>
          num_classes = CASE args.multi_label \in {"mask", "age"} -> 3
                          [] args.multi_label = "gender" -> 2
                          [] OTHER -> 18
    /\ pc \notin {"idle", "setup", "error"} => headOut = num_classes
    /\ (pc # "idle" /\ SingleTask /\ args.multi_label \in Tasks)
       => \A c \in critCalls : c[2] = args.multi_label

C9_Witness ==
    /\ num_classes = 2 /\ headOut = 2
    /\ <<"train", "gender">> \in critCalls

====
